---- MODULE Spec2Model ----
(***************************************************************************)
(* Beadmaster: the sync engine between Task Master (tasks.json) and Beads  *)
(* (the bd issue tracker), with the link store .beadmaster/links.json.     *)
(* Strings that the code parses or builds (titles, identifiers) are        *)
(* sequences of one-character strings, so that parsing is computed.        *)
(***************************************************************************)
EXTENDS Integers, Sequences, FiniteSets, TLC

\* ------------------------------------------------------------------ bounds
MaxUserTime == 1      \* the users' timestamps are 1..MaxUserTime
MaxCalls == 2         \* calls that write something, each at a later time
MaxNewBeads == 2      \* number of issues bd can still create

InitTime == MaxUserTime + 1      \* the time of the first call
MaxTime == InitTime + MaxCalls   \* no call after it
NoDate == -1          \* an absent updatedAt / lastSync (undefined)
NaN == -1             \* parseInt without digits
NoMatch == -1         \* extractTmId's null

\* ----------------------------------------------------------------- strings
DigitChars == <<"0", "1", "2", "3", "4", "5", "6", "7", "8", "9">>

IsDigit(c) == \E d \in 1..10 : DigitChars[d] = c

DigitVal(c) == (CHOOSE d \in 1..10 : DigitChars[d] = c) - 1

RECURSIVE DecStr(_)
\* String(n) for a non-negative integer
DecStr(n) ==
    IF n < 10 THEN <<DigitChars[n + 1]>>
    ELSE DecStr(n \div 10) \o <<DigitChars[(n % 10) + 1]>>

RECURSIVE DigitRunEnd(_, _)
\* the index after the longest run of digits of s that starts at i (\d+ is greedy)
DigitRunEnd(s, i) ==
    IF i <= Len(s) /\ IsDigit(s[i]) THEN DigitRunEnd(s, i + 1) ELSE i

RECURSIVE DigitsValue(_, _, _, _)
DigitsValue(s, i, j, acc) ==
    IF i >= j THEN acc ELSE DigitsValue(s, i + 1, j, acc * 10 + DigitVal(s[i]))

\* parseInt(s, 10) on a string without sign or leading blanks
ParseInt(s) ==
    LET j == DigitRunEnd(s, 1)
    IN IF j = 1 THEN NaN ELSE DigitsValue(s, 1, j, 0)

Lower(c) ==
    CASE c = "T" -> "t"
      [] c = "M" -> "m"
      [] OTHER -> c

\* s has the literal p at position i (ci: compared without case)
LitAt(s, i, p, ci) ==
    /\ i + Len(p) - 1 <= Len(s)
    /\ \A k \in 1..Len(p) :
          IF ci THEN Lower(s[i + k - 1]) = Lower(p[k]) ELSE s[i + k - 1] = p[k]

\* the regular expression  pre(\d+)post  matched at position i: the number, or NoMatch
NumAt(s, i, pre, post, ci) ==
    LET b == i + Len(pre)
        e == DigitRunEnd(s, b)
    IN IF LitAt(s, i, pre, ci) /\ e > b /\ LitAt(s, e, post, ci)
       THEN DigitsValue(s, b, e, 0)
       ELSE NoMatch

\* the same expression without the ^ anchor: the leftmost match
NumAnywhere(s, pre, post, ci) ==
    LET hits == {i \in 1..Len(s) : NumAt(s, i, pre, post, ci) # NoMatch}
    IN IF hits = {} THEN NoMatch
       ELSE NumAt(s, CHOOSE i \in hits : \A k \in hits : i <= k, pre, post, ci)

\* ------------------------------------------------------- Task Master adapter
TmNativeStatuses ==
    {"pending", "in-progress", "done", "deferred", "cancelled", "blocked", "review"}

UnifiedStatuses == {"pending", "in_progress", "done", "blocked", "cancelled"}

\* the lookup tables are object literals: map[key] also finds what every object
\* inherits from Object.prototype, and those values are truthy and non-null
ObjectPrototypeKeys ==
    {"constructor", "toString", "valueOf", "hasOwnProperty", "__proto__"}

\* such a value (a function or the prototype object), which is no status and no priority
InheritedProperty == "[inherited]"

TmNormalizeStatus(status) ==
    CASE status = "pending" -> "pending"
      [] status = "in-progress" -> "in_progress"
      [] status = "done" -> "done"
      [] status = "deferred" -> "pending"
      [] status = "cancelled" -> "cancelled"
      [] status = "blocked" -> "blocked"
      [] status = "review" -> "in_progress"
      [] status \in ObjectPrototypeKeys -> InheritedProperty
      [] OTHER -> "pending"

TmDenormalizeStatus(status) ==
    CASE status = "pending" -> "pending"
      [] status = "in_progress" -> "in-progress"
      [] status = "done" -> "done"
      [] status = "blocked" -> "blocked"
      [] status = "cancelled" -> "cancelled"

\* priority "" is an absent priority
TmNormalizePriority(priority) ==
    CASE priority = "high" -> 1
      [] priority = "medium" -> 2
      [] priority = "low" -> 3
      [] priority \in ObjectPrototypeKeys -> InheritedProperty
      [] OTHER -> 2

TmToUnified(task) ==
    [id |-> <<"t", "m", ":">> \o DecStr(task.id),
     title |-> task.title,
     status |-> TmNormalizeStatus(task.status),
     priority |-> TmNormalizePriority(task.priority),
     updatedAt |-> task.updatedAt,
     source |-> [system |-> "taskmaster", id |-> DecStr(task.id)]]

TmGetUnifiedTasks(file) == [i \in 1..Len(file) |-> TmToUnified(file[i])]

\* tasks.find((t) => t.id === taskId): the index of the first one, 0 if none
TmFind(file, taskId) ==
    LET hits == {i \in 1..Len(file) : file[i].id = taskId}
    IN IF hits = {} THEN 0 ELSE CHOOSE i \in hits : \A k \in hits : i <= k

\* TaskMasterAdapter.updateStatus when it does not raise
TmUpdateStatus(file, taskId, status, time) ==
    LET i == TmFind(file, taskId)
    IN [file EXCEPT ![i].status = TmDenormalizeStatus(status),
                    ![i].updatedAt = time]

\* ------------------------------------------------------------ Beads adapter
BeadNativeStatuses == {"open", "in_progress", "closed"}

BeadNormalizeStatus(status) ==
    CASE status = "open" -> "pending"
      [] status = "in_progress" -> "in_progress"
      [] status = "closed" -> "done"
      [] status \in ObjectPrototypeKeys -> InheritedProperty
      [] OTHER -> "pending"

BeadDenormalizeStatus(status) ==
    CASE status = "pending" -> "open"
      [] status = "in_progress" -> "in_progress"
      [] status = "done" -> "closed"
      [] status = "blocked" -> "open"
      [] status = "cancelled" -> "closed"

BeadPrefix == <<"b", "e", "a", "d", ":">>

BeadToUnified(issue) ==
    [id |-> BeadPrefix \o issue.id,
     title |-> issue.title,
     status |-> BeadNormalizeStatus(issue.status),
     priority |-> issue.priority,
     updatedAt |-> issue.updated_at,
     source |-> [system |-> "beads", id |-> issue.id]]

BeadGetUnifiedTasks(db) == [i \in 1..Len(db) |-> BeadToUnified(db[i])]

\* the patterns of extractTmId, in the order of the array
ExtractPattern(title, k) ==
    CASE k = 1 -> NumAt(title, 1, <<"T", "M", "-">>, <<":">>, FALSE)
      [] k = 2 -> NumAt(title, 1, <<"[", "T", "M", "-">>, <<"]">>, FALSE)
      [] k = 3 -> NumAt(title, 1, <<"t", "m", ":">>, <<>>, TRUE)
      [] k = 4 -> NumAnywhere(title, <<"(", "T", "M", "-">>, <<")">>, FALSE)

extractTmId(title) ==
    LET hits == {k \in 1..4 : ExtractPattern(title, k) # NoMatch}
    IN IF hits = {} THEN NoMatch
       ELSE ExtractPattern(title, CHOOSE k \in hits : \A m \in hits : k <= m)

\* the title createIssue is called with: `TM-${tmId}: ${tmTask.title}`
CreatedTitle(tmId, title) == <<"T", "M", "-">> \o DecStr(tmId) \o <<":", " ">> \o title

\* the id bd gives to the n-th issue it creates
NewBeadId(n) == <<"n">> \o DecStr(n)

\* the issue `bd create` adds when it succeeds
BeadCreated(db, id, title, priority, time) ==
    Append(db, [id |-> id, title |-> title, status |-> "open",
                priority |-> priority, updated_at |-> time])

\* a bug: the unified status is handed to bd as it is
BeadUpdateStatusRaw(db, beadId, status, time) ==
    [i \in 1..Len(db) |->
        IF db[i].id = beadId
        THEN [db[i] EXCEPT !.status = status, !.updated_at = time]
        ELSE db[i]]

\* the effect of `bd close` / `bd update --status` when it succeeds
BeadUpdateStatus(db, beadId, status, time) ==
    [i \in 1..Len(db) |->
        IF db[i].id = beadId
        THEN [db[i] EXCEPT !.status = BeadDenormalizeStatus(status), !.updated_at = time]
        ELSE db[i]]


\* ------------------------------------------------------------- sync engine
VARIABLES
    tmFile,      \* .taskmaster/tasks/tasks.json: the sequence of native tasks
    beadsDb,     \* the issues of Beads, in the order bd lists them
    linkFile,    \* .beadmaster/links.json: absent, unparsable, or a LinkStore
    now,         \* the clock (new Date())
    nextBead,    \* how many issues bd has created, plus one
    last,        \* the last call of the engine: its arguments, the state it found, what it did
    running      \* the invocations under way at the same time, each with what it has read

vars == <<tmFile, beadsDb, linkFile, now, nextBead, last, running>>

\* the ids of the tasks of tasks.json
TmIds == {0, 1}

Directions == {"bidirectional", "tm_to_beads", "beads_to_tm"}

\* new Map(seq.map((x) => [key of x, x])), keys[i] being the key of seq[i]: a later
\* entry replaces an earlier one
MapOf(seq, keys) ==
    [k \in {keys[i] : i \in 1..Len(seq)} |->
        seq[CHOOSE i \in 1..Len(seq) :
                /\ keys[i] = k
                /\ \A j \in 1..Len(seq) : keys[j] = k => j <= i]]

MapSet(m, k, v) == [x \in DOMAIN m \cup {k} |-> IF x = k THEN v ELSE m[x]]

FreshStore == [version |-> 1, links |-> <<>>, lastSync |-> NoDate]

NoFile == [kind |-> "absent", version |-> 0, links |-> <<>>, lastSync |-> NoDate]

\* a links.json that JSON.parse rejects
BadFile == [kind |-> "unparsable", version |-> 0, links |-> <<>>, lastSync |-> NoDate]

\* the processes that run the engine on the project at the same time
Procs == {1, 2}

\* no invocation under way: op is the command, phase how far it is, file the
\* links.json it read, tm and beads the snapshots it read, write the store a sync has
\* ready to save, loadedAt and savedAt the times of its read and of its write
Idle ==
    [op |-> "none", phase |-> "idle", tmId |-> NoMatch, beadId |-> <<>>, ident |-> <<>>,
     direction |-> "", tm |-> <<>>, beads |-> <<>>, file |-> NoFile, write |-> NoFile,
     saved |-> FALSE, ok |-> FALSE, loadedAt |-> NoDate, savedAt |-> NoDate]

\* a bug: whatever the file holds is taken for a LinkStore
loadLinksUnchecked(file) ==
    [version |-> file.version, links |-> file.links, lastSync |-> file.lastSync]

loadLinks(file) ==
    IF file.kind = "ok"
    THEN [version |-> file.version, links |-> file.links, lastSync |-> file.lastSync]
    ELSE FreshStore

\* SyncEngine.listLinks
listLinks(file) == loadLinks(file).links

saveLinks(store, time) ==
    [kind |-> "ok", version |-> store.version, links |-> store.links, lastSync |-> time]

EmptyStats == [taskmasterTasks |-> 0, beadIssues |-> 0, linked |-> 0, unlinked |-> 0]

EmptyResult ==
    [created |-> <<>>, updated |-> <<>>, conflicts |-> <<>>, skipped |-> <<>>,
     stats |-> EmptyStats]

\* updatedAt?.getTime() || 0
TimeOrZero(date) == IF date = NoDate THEN 0 ELSE date

\* a bug: the auto-link takes a title that names no task for one that does
AutoLinkableNoMatch(tmId, beadId, byTm, byBead) ==
    /\ tmId # 0
    /\ tmId \notin DOMAIN byTm
    /\ beadId \notin DOMAIN byBead

\* a bug: the auto-link does not look whether the task has a Link
AutoLinkableAnyTask(tmId, beadId, byTm, byBead) ==
    /\ tmId # NoMatch
    /\ tmId # 0
    /\ beadId \notin DOMAIN byBead

\* a bug: the auto-link does not look at the Links there are
AutoLinkableUnchecked(tmId, beadId, byTm, byBead) ==
    /\ tmId # NoMatch
    /\ tmId # 0

\* the condition of the auto-link: `tmId && !linkByTmId.has(tmId) && !linkByBeadId.has(id)`
AutoLinkable(tmId, beadId, byTm, byBead) ==
    /\ tmId # NoMatch
    /\ tmId # 0
    /\ tmId \notin DOMAIN byTm
    /\ beadId \notin DOMAIN byBead

RECURSIVE AutoLinkPass(_, _, _, _)
\* the loop over beadTasks that links by the title's convention
AutoLinkPass(beadTasks, i, st, time) ==
    IF i > Len(beadTasks) THEN st
    ELSE LET b == beadTasks[i]
             tmId == extractTmId(b.title)
             link == [tmId |-> tmId, beadId |-> b.source.id,
                      linkedAt |-> time, autoLinked |-> TRUE]
         IN IF b.source.system = "beads"
                /\ AutoLinkable(tmId, b.source.id, st.byTm, st.byBead)
            THEN AutoLinkPass(beadTasks, i + 1,
                     [st EXCEPT !.links = Append(@, link),
                                !.byTm = MapSet(@, tmId, link),
                                !.byBead = MapSet(@, b.source.id, link)], time)
            ELSE AutoLinkPass(beadTasks, i + 1, st, time)

\* the guard of the pass over tmTasks: `options.direction !== 'beads_to_tm'`
RunsTmPass(direction) == direction # "beads_to_tm"

\* a bug: the dry-run flag is not looked at
ExecutesAlways(dryRun) == TRUE

\* the guards `if (!options.dryRun)` around every adapter call and around saveLinks
Executes(dryRun) == ~dryRun

\* which side of a pair with different statuses is written: the three branches
NewerSide(tmUpdated, beadUpdated) ==
    IF tmUpdated > beadUpdated THEN "tm"
    ELSE IF beadUpdated > tmUpdated THEN "bead"
    ELSE "conflict"

Call(fn, tmId, beadId, title, priority, status, ok) ==
    [fn |-> fn, tmId |-> tmId, beadId |-> beadId, title |-> title,
     priority |-> priority, status |-> status, ok |-> ok]

\* a bug: the create action is recorded only when the bead was created
CreateBranchRecordsSuccess(t, tmId, st, opts, env, time) ==
    LET action == [task |-> t, direction |-> "tm_to_beads",
                   reason |-> [text |-> "No linked bead found", from |-> "", to |-> ""]]
        title == CreatedTitle(tmId, t.title)
        ok == tmId \notin env.bdFail
        beadId == IF ok THEN NewBeadId(st.nextBead) ELSE <<>>
        call == Call("createIssue", tmId, beadId, title, t.priority, "", ok)
    IN IF opts.dryRun THEN [st EXCEPT !.created = Append(@, action)]
       ELSE IF ~ok THEN [st EXCEPT !.calls = Append(@, call)]
       ELSE [st EXCEPT
               !.calls = Append(@, call),
               !.beads = BeadCreated(@, beadId, title, t.priority, time),
               !.nextBead = @ + 1,
               !.links = Append(@, [tmId |-> tmId, beadId |-> beadId,
                                    linkedAt |-> time, autoLinked |-> FALSE]),
               !.created = Append(@, action)]

\* a bug: the Link of a created bead is flagged as found by convention
CreateBranchAutoLinked(t, tmId, st, opts, env, time) ==
    LET action == [task |-> t, direction |-> "tm_to_beads",
                   reason |-> [text |-> "No linked bead found", from |-> "", to |-> ""]]
        title == CreatedTitle(tmId, t.title)
        ok == tmId \notin env.bdFail
        beadId == IF ok THEN NewBeadId(st.nextBead) ELSE <<>>
        call == Call("createIssue", tmId, beadId, title, t.priority, "", ok)
        called == [st EXCEPT !.calls = Append(@, call)]
        done == IF ~Executes(opts.dryRun) THEN st
                ELSE IF ~ok THEN called
                ELSE [called EXCEPT
                        !.beads = BeadCreated(@, beadId, title, t.priority, time),
                        !.nextBead = @ + 1,
                        !.links = Append(@, [tmId |-> tmId, beadId |-> beadId,
                                             linkedAt |-> time, autoLinked |-> TRUE])]
    IN [done EXCEPT !.created = Append(@, action)]

\* a bug: the store is written as soon as the Link of a created bead is pushed
CreateBranchSavesAtOnce(t, tmId, st, opts, env, time) ==
    LET action == [task |-> t, direction |-> "tm_to_beads",
                   reason |-> [text |-> "No linked bead found", from |-> "", to |-> ""]]
        title == CreatedTitle(tmId, t.title)
        ok == tmId \notin env.bdFail
        beadId == IF ok THEN NewBeadId(st.nextBead) ELSE <<>>
        call == Call("createIssue", tmId, beadId, title, t.priority, "", ok)
        called == [st EXCEPT !.calls = Append(@, call)]
        links == Append(st.links, [tmId |-> tmId, beadId |-> beadId,
                                   linkedAt |-> time, autoLinked |-> FALSE])
        done == IF ~Executes(opts.dryRun) THEN st
                ELSE IF ~ok THEN called
                ELSE [called EXCEPT
                        !.beads = BeadCreated(@, beadId, title, t.priority, time),
                        !.nextBead = @ + 1,
                        !.links = links,
                        !.writes = Append(@, [after |-> Len(called.calls),
                                              file |-> saveLinks([FreshStore EXCEPT
                                                                    !.links = links], time)])]
    IN [done EXCEPT !.created = Append(@, action)]

\* a TM task without a link: the create branch
CreateBranch(t, tmId, st, opts, env, time) ==
    LET action == [task |-> t, direction |-> "tm_to_beads",
                   reason |-> [text |-> "No linked bead found", from |-> "", to |-> ""]]
        title == CreatedTitle(tmId, t.title)
        ok == tmId \notin env.bdFail
        beadId == IF ok THEN NewBeadId(st.nextBead) ELSE <<>>
        call == Call("createIssue", tmId, beadId, title, t.priority, "", ok)
        called == [st EXCEPT !.calls = Append(@, call)]
        done == IF ~Executes(opts.dryRun) THEN st
                ELSE IF ~ok THEN called
                ELSE [called EXCEPT
                        !.beads = BeadCreated(@, beadId, title, t.priority, time),
                        !.nextBead = @ + 1,
                        !.links = Append(@, [tmId |-> tmId, beadId |-> beadId,
                                             linkedAt |-> time, autoLinked |-> FALSE])]
    IN [done EXCEPT !.created = Append(@, action)]

\* a bug: a Link to an issue that Beads does not list is taken for no Link
StatusBranchRecreates(t, tmId, st, beadById, opts, env, time) ==
    LET link == st.byTm[tmId]
        key == BeadPrefix \o link.beadId
    IN IF key \notin DOMAIN beadById THEN CreateBranch(t, tmId, st, opts, env, time)
       ELSE LET beadTask == beadById[key]
                side == NewerSide(TimeOrZero(t.updatedAt), TimeOrZero(beadTask.updatedAt))
            IN IF t.status = beadTask.status THEN st
               ELSE IF side = "tm" THEN
                    LET action == [task |-> t, direction |-> "tm_to_beads",
                                   reason |-> [text |-> "Status", from |-> beadTask.status,
                                               to |-> t.status]]
                        ok == tmId \notin env.bdFail
                        call == Call("beads.updateStatus", tmId, link.beadId, <<>>, 0,
                                     t.status, ok)
                        called == [st EXCEPT !.calls = Append(@, call)]
                        done == IF ~Executes(opts.dryRun) THEN st
                                ELSE IF ~ok THEN called
                                ELSE [called EXCEPT !.beads =
                                        BeadUpdateStatus(@, link.beadId, t.status, time)]
                    IN [done EXCEPT !.updated = Append(@, action)]
               ELSE IF side = "bead" THEN
                    LET action == [task |-> beadTask, direction |-> "beads_to_tm",
                                   reason |-> [text |-> "Status", from |-> t.status,
                                               to |-> beadTask.status]]
                        ok == tmId \notin env.tmFail
                        call == Call("tm.updateStatus", tmId, link.beadId, <<>>, 0,
                                     beadTask.status, ok)
                        called == [st EXCEPT !.calls = Append(@, call)]
                    IN IF ~Executes(opts.dryRun)
                       THEN [st EXCEPT !.updated = Append(@, action)]
                       ELSE IF ~ok
                       THEN [called EXCEPT !.aborted = TRUE]
                       ELSE [called EXCEPT
                               !.tm = TmUpdateStatus(@, tmId, beadTask.status, time),
                               !.updated = Append(@, action)]
               ELSE [st EXCEPT !.conflicts =
                        Append(@, [task |-> t, tmValue |-> t.status,
                                   beadsValue |-> beadTask.status, field |-> "status"])]

\* a bug: the pair is compared by time whether or not the statuses differ
StatusBranchAlwaysCompares(t, tmId, st, beadById, opts, env, time) ==
    LET link == st.byTm[tmId]
        key == BeadPrefix \o link.beadId
    IN IF key \notin DOMAIN beadById THEN st
       ELSE LET beadTask == beadById[key]
                side == NewerSide(TimeOrZero(t.updatedAt), TimeOrZero(beadTask.updatedAt))
            IN IF side = "tm" THEN
                    LET action == [task |-> t, direction |-> "tm_to_beads",
                                   reason |-> [text |-> "Status", from |-> beadTask.status,
                                               to |-> t.status]]
                        ok == tmId \notin env.bdFail
                        call == Call("beads.updateStatus", tmId, link.beadId, <<>>, 0,
                                     t.status, ok)
                        called == [st EXCEPT !.calls = Append(@, call)]
                        done == IF ~Executes(opts.dryRun) THEN st
                                ELSE IF ~ok THEN called
                                ELSE [called EXCEPT !.beads =
                                        BeadUpdateStatus(@, link.beadId, t.status, time)]
                    IN [done EXCEPT !.updated = Append(@, action)]
               ELSE IF side = "bead" THEN
                    LET action == [task |-> beadTask, direction |-> "beads_to_tm",
                                   reason |-> [text |-> "Status", from |-> t.status,
                                               to |-> beadTask.status]]
                        ok == tmId \notin env.tmFail
                        call == Call("tm.updateStatus", tmId, link.beadId, <<>>, 0,
                                     beadTask.status, ok)
                        called == [st EXCEPT !.calls = Append(@, call)]
                    IN IF ~Executes(opts.dryRun)
                       THEN [st EXCEPT !.updated = Append(@, action)]
                       ELSE IF ~ok
                       THEN [called EXCEPT !.aborted = TRUE]
                       ELSE [called EXCEPT
                               !.tm = TmUpdateStatus(@, tmId, beadTask.status, time),
                               !.updated = Append(@, action)]
               ELSE [st EXCEPT !.conflicts =
                        Append(@, [task |-> t, tmValue |-> t.status,
                                   beadsValue |-> beadTask.status, field |-> "status"])]

\* a TM task with a link: the status comparison
StatusBranch(t, tmId, st, beadById, opts, env, time) ==
    LET link == st.byTm[tmId]
        key == BeadPrefix \o link.beadId
    IN IF key \notin DOMAIN beadById THEN st
       ELSE LET beadTask == beadById[key]
                side == NewerSide(TimeOrZero(t.updatedAt), TimeOrZero(beadTask.updatedAt))
            IN IF t.status = beadTask.status THEN st
               ELSE IF side = "tm" THEN
                    LET action == [task |-> t, direction |-> "tm_to_beads",
                                   reason |-> [text |-> "Status", from |-> beadTask.status,
                                               to |-> t.status]]
                        ok == tmId \notin env.bdFail
                        call == Call("beads.updateStatus", tmId, link.beadId, <<>>, 0,
                                     t.status, ok)
                        called == [st EXCEPT !.calls = Append(@, call)]
                        done == IF ~Executes(opts.dryRun) THEN st
                                ELSE IF ~ok THEN called
                                ELSE [called EXCEPT !.beads =
                                        BeadUpdateStatus(@, link.beadId, t.status, time)]
                    IN [done EXCEPT !.updated = Append(@, action)]
               ELSE IF side = "bead" THEN
                    LET action == [task |-> beadTask, direction |-> "beads_to_tm",
                                   reason |-> [text |-> "Status", from |-> t.status,
                                               to |-> beadTask.status]]
                        ok == tmId \notin env.tmFail
                        call == Call("tm.updateStatus", tmId, link.beadId, <<>>, 0,
                                     beadTask.status, ok)
                        called == [st EXCEPT !.calls = Append(@, call)]
                    IN IF ~Executes(opts.dryRun)
                       THEN [st EXCEPT !.updated = Append(@, action)]
                       ELSE IF ~ok
                       THEN [called EXCEPT !.aborted = TRUE]
                       ELSE [called EXCEPT
                               !.tm = TmUpdateStatus(@, tmId, beadTask.status, time),
                               !.updated = Append(@, action)]
               ELSE [st EXCEPT !.conflicts =
                        Append(@, [task |-> t, tmValue |-> t.status,
                                   beadsValue |-> beadTask.status, field |-> "status"])]

RECURSIVE TmPass(_, _, _, _, _, _, _)
\* the loop over tmTasks; an exception of tm.updateStatus leaves the loop and sync
TmPass(tmTasks, i, st, beadById, opts, env, time) ==
    IF i > Len(tmTasks) \/ st.aborted THEN st
    ELSE LET t == tmTasks[i]
             tmId == ParseInt(t.source.id)
             next == IF t.source.system # "taskmaster" THEN st
                     ELSE IF tmId \notin DOMAIN st.byTm
                     THEN CreateBranch(t, tmId, st, opts, env, time)
                     ELSE StatusBranch(t, tmId, st, beadById, opts, env, time)
         IN TmPass(tmTasks, i + 1, next, beadById, opts, env, time)

\* a bug: the Links whose issue is not in Beads any more are dropped before the save
SyncFinishPruned(st, linkStore, file, nTm, nBeads, opts, time) ==
    LET kept == SelectSeq(st.links,
                          LAMBDA l : \E j \in 1..Len(st.beads) : st.beads[j].id = l.beadId)
        writes == IF ~st.aborted /\ Executes(opts.dryRun)
                  THEN Append(st.writes,
                              [after |-> Len(st.calls),
                               file |-> saveLinks([linkStore EXCEPT !.links = kept], time)])
                  ELSE st.writes
    IN [returned |-> ~st.aborted,
        result |-> IF st.aborted THEN EmptyResult
                   ELSE [created |-> st.created, updated |-> st.updated,
                         conflicts |-> st.conflicts, skipped |-> st.skipped,
                         stats |-> [taskmasterTasks |-> nTm,
                                    beadIssues |-> nBeads,
                                    linked |-> Len(kept),
                                    unlinked |-> nTm - Len(kept)]],
        calls |-> st.calls,
        tm |-> st.tm,
        beads |-> st.beads,
        nextBead |-> st.nextBead,
        writes |-> writes,
        saved |-> writes # <<>>,
        file |-> IF writes = <<>> THEN file ELSE writes[Len(writes)].file]

\* a bug: linked counts the Links that were loaded, not those of the end of the pass
SyncFinishCountsLoaded(st, linkStore, file, nTm, nBeads, opts, time) ==
    LET writes == IF ~st.aborted /\ Executes(opts.dryRun)
                  THEN Append(st.writes,
                              [after |-> Len(st.calls),
                               file |-> saveLinks([linkStore EXCEPT !.links = st.links],
                                                  time)])
                  ELSE st.writes
    IN [returned |-> ~st.aborted,
        result |-> IF st.aborted THEN EmptyResult
                   ELSE [created |-> st.created, updated |-> st.updated,
                         conflicts |-> st.conflicts, skipped |-> st.skipped,
                         stats |-> [taskmasterTasks |-> nTm,
                                    beadIssues |-> nBeads,
                                    linked |-> Len(linkStore.links),
                                    unlinked |-> nTm - Len(linkStore.links)]],
        calls |-> st.calls,
        tm |-> st.tm,
        beads |-> st.beads,
        nextBead |-> st.nextBead,
        writes |-> writes,
        saved |-> writes # <<>>,
        file |-> IF writes = <<>> THEN file ELSE writes[Len(writes)].file]

\* the end of sync: the stats, saveLinks unless dry-run, the SyncResult; st is the
\* state of the pass, and an aborted pass returns nothing and does not get here.
\* writes lists the writes of links.json the call made, each with the number of
\* adapter calls issued before it; the file on disk is what the last write left
SyncFinish(st, linkStore, file, nTm, nBeads, opts, time) ==
    LET writes == IF ~st.aborted /\ Executes(opts.dryRun)
                  THEN Append(st.writes,
                              [after |-> Len(st.calls),
                               file |-> saveLinks([linkStore EXCEPT !.links = st.links],
                                                  time)])
                  ELSE st.writes
    IN [returned |-> ~st.aborted,
        result |-> IF st.aborted THEN EmptyResult
                   ELSE [created |-> st.created, updated |-> st.updated,
                         conflicts |-> st.conflicts, skipped |-> st.skipped,
                         stats |-> [taskmasterTasks |-> nTm,
                                    beadIssues |-> nBeads,
                                    linked |-> Len(st.links),
                                    unlinked |-> nTm - Len(st.links)]],
        calls |-> st.calls,
        tm |-> st.tm,
        beads |-> st.beads,
        nextBead |-> st.nextBead,
        writes |-> writes,
        saved |-> writes # <<>>,
        file |-> IF writes = <<>> THEN file ELSE writes[Len(writes)].file]

\* SyncEngine.sync: opts = [dryRun, direction]; env = [bdFail, tmFail], the TM ids
\* for which the bd command fails and for which tasks.json cannot be written
SyncRun(tm, beads, file, nextB, opts, env, time) ==
    LET tmTasks == TmGetUnifiedTasks(tm)
        beadTasks == BeadGetUnifiedTasks(beads)
        linkStore == loadLinks(file)
        beadById == MapOf(beadTasks, [i \in 1..Len(beadTasks) |-> beadTasks[i].id])
        st0 == [links |-> linkStore.links,
                byTm |-> MapOf(linkStore.links, [i \in 1..Len(linkStore.links) |-> linkStore.links[i].tmId]),
                byBead |-> MapOf(linkStore.links, [i \in 1..Len(linkStore.links) |-> linkStore.links[i].beadId]),
                created |-> <<>>, updated |-> <<>>, conflicts |-> <<>>, skipped |-> <<>>,
                calls |-> <<>>, writes |-> <<>>, tm |-> tm, beads |-> beads,
                nextBead |-> nextB, aborted |-> FALSE]
        st1 == AutoLinkPass(beadTasks, 1, st0, time)
    IN SyncFinish(IF RunsTmPass(opts.direction)
                  THEN TmPass(tmTasks, 1, st1, beadById, opts, env, time)
                  ELSE st1,
                  linkStore, file, Len(tmTasks), Len(beadTasks), opts, time)

\* a bug: link looks for a Link of the task only
AlreadyLinkedTask(links, tmId, beadId) ==
    \E i \in 1..Len(links) : links[i].tmId = tmId

\* the two `find` of link: a Link with that tmId, or a Link with that beadId
AlreadyLinked(links, tmId, beadId) ==
    \/ \E i \in 1..Len(links) : links[i].tmId = tmId
    \/ \E i \in 1..Len(links) : links[i].beadId = beadId

\* SyncEngine.link
LinkRun(file, tmId, beadId, time) ==
    LET linkStore == loadLinks(file)
        link == [tmId |-> tmId, beadId |-> beadId, linkedAt |-> time, autoLinked |-> FALSE]
    IN IF AlreadyLinked(linkStore.links, tmId, beadId)
       THEN [ok |-> FALSE, saved |-> FALSE, file |-> file]
       ELSE [ok |-> TRUE, saved |-> TRUE,
             file |-> saveLinks([linkStore EXCEPT !.links = Append(@, link)], time)]

\* identifier.match(/^(?:tm[:\-])?(\d+)$/i): the TM id, or NoMatch
UnlinkTmId(identifier) ==
    LET b == IF LitAt(identifier, 1, <<"t", "m", ":">>, TRUE)
                \/ LitAt(identifier, 1, <<"t", "m", "-">>, TRUE)
             THEN 4 ELSE 1
        e == DigitRunEnd(identifier, b)
    IN IF e > b /\ e = Len(identifier) + 1
       THEN DigitsValue(identifier, b, e, 0)
       ELSE NoMatch

\* a bug: unlink writes the store whether or not a Link was removed
UnlinkRunAlwaysSaves(file, identifier, time) ==
    LET linkStore == loadLinks(file)
        tmId == UnlinkTmId(identifier)
        kept == IF tmId # NoMatch
                THEN SelectSeq(linkStore.links, LAMBDA l : l.tmId # tmId)
                ELSE SelectSeq(linkStore.links, LAMBDA l : l.beadId # identifier)
    IN [ok |-> Len(kept) < Len(linkStore.links), saved |-> TRUE,
        file |-> saveLinks([linkStore EXCEPT !.links = kept], time)]

\* SyncEngine.unlink
UnlinkRun(file, identifier, time) ==
    LET linkStore == loadLinks(file)
        tmId == UnlinkTmId(identifier)
        kept == IF tmId # NoMatch
                THEN SelectSeq(linkStore.links, LAMBDA l : l.tmId # tmId)
                ELSE SelectSeq(linkStore.links, LAMBDA l : l.beadId # identifier)
    IN IF Len(kept) < Len(linkStore.links)
       THEN [ok |-> TRUE, saved |-> TRUE,
             file |-> saveLinks([linkStore EXCEPT !.links = kept], time)]
       ELSE [ok |-> FALSE, saved |-> FALSE, file |-> file]

\* -------------------------------------------------- the states of a project
\* task 1 is the task whose pair is compared: every relation of status and time;
\* task 0 is pending and never stamped
TmTaskSample(id) ==
    IF id = 1
    THEN {[id |-> id, title |-> <<"a">>, status |-> s, priority |-> "high", updatedAt |-> u] :
             s \in {"pending", "blocked"}, u \in {NoDate} \cup 1..MaxUserTime}
    ELSE {[id |-> id, title |-> <<"a">>, status |-> "pending", priority |-> "",
           updatedAt |-> NoDate]}

\* the task files: one task for each id, in the order of the ids
TmFiles == {<<t0, t1>> : t0 \in TmTaskSample(0), t1 \in TmTaskSample(1)}

\* issues a user made with bd: one that names TM-1 in its title, and one that names
\* TM-0 and whose id is the prefix tm and a number
SeedBeads ==
    << [id |-> <<"b", "1">>, title |-> <<"T", "M", "-", "1", ":", " ", "a">>],
       [id |-> <<"t", "m", "-", "1">>, title |-> <<"[", "T", "M", "-", "0", "]", " ", "a">>] >>

BeadSample(k) ==
    IF k = 1
    THEN {[id |-> SeedBeads[k].id, title |-> SeedBeads[k].title, status |-> s,
           priority |-> 2, updated_at |-> u] :
             s \in {"open", "closed"}, u \in {NoDate, 1}}
    ELSE {[id |-> SeedBeads[k].id, title |-> SeedBeads[k].title, status |-> "closed",
           priority |-> 2, updated_at |-> 1]}

RECURSIVE BeadDbs(_)
BeadDbs(k) ==
    IF k = 0 THEN {<<>>}
    ELSE LET prev == BeadDbs(k - 1)
         IN (IF k = 1 THEN prev ELSE {}) \cup {Append(d, b) : d \in prev, b \in BeadSample(k)}

\* the bead ids a user can name: the issues users made and those bd has created
BeadIdPool == {SeedBeads[k].id : k \in 1..Len(SeedBeads)}
                 \cup {NewBeadId(n) : n \in 1..(nextBead - 1)}

IdentPool == {DecStr(i) : i \in TmIds} \cup {<<"T", "M", "-", "1">>} \cup BeadIdPool

\* the bd command fails for no task or for one task
BdFails == {{}} \cup {{i} : i \in TmIds}

NoCall ==
    [op |-> "none", dryRun |-> FALSE, direction |-> "", tmId |-> NoMatch, beadId |-> <<>>,
     ident |-> <<>>, time |-> NoDate, preTm |-> <<>>, preBeads |-> <<>>, preFile |-> NoFile,
     result |-> EmptyResult, calls |-> <<>>, saved |-> FALSE, returned |-> FALSE,
     ok |-> FALSE, status |-> "", out |-> "", writes |-> <<>>]

Init ==
    /\ tmFile \in TmFiles
    /\ beadsDb \in BeadDbs(Len(SeedBeads))
    /\ linkFile \in {NoFile, BadFile}
    /\ now = InitTime
    /\ nextBead = 1
    /\ last = NoCall
    /\ running = [p \in Procs |-> Idle]

\* ------------------------------------------------------------------ actions
\* a call that wrote something is followed by a later time
Clock(wrote) ==
    /\ wrote => now < MaxTime
    /\ now' = IF wrote THEN now + 1 ELSE now

SyncCall(op, dryRun, direction, env) ==
    \E r \in {SyncRun(tmFile, beadsDb, linkFile, nextBead,
                       [dryRun |-> dryRun, direction |-> direction], env, now)} :
       /\ r.nextBead <= MaxNewBeads + 1
       /\ Clock(r.saved \/ r.calls # <<>>)
       /\ tmFile' = r.tm
       /\ beadsDb' = r.beads
       /\ linkFile' = r.file
       /\ nextBead' = r.nextBead
       /\ last' = [NoCall EXCEPT !.op = op, !.dryRun = dryRun, !.direction = direction,
                                 !.time = now, !.preTm = tmFile, !.preBeads = beadsDb,
                                 !.preFile = linkFile, !.result = r.result,
                                 !.calls = r.calls, !.saved = r.saved,
                                 !.returned = r.returned, !.ok = r.returned,
                                 !.writes = r.writes]
       /\ UNCHANGED running

\* beadmaster sync; the bd command fails for the tasks of bdFail
Sync(dryRun, direction, bdFail) ==
    /\ dryRun => bdFail = {}
    /\ SyncCall("sync", dryRun, direction, [bdFail |-> bdFail, tmFail |-> {}])

\* beadmaster import
Import(dryRun, bdFail) ==
    /\ dryRun => bdFail = {}
    /\ SyncCall("import", dryRun, "tm_to_beads", [bdFail |-> bdFail, tmFail |-> {}])

\* a sync during which tasks.json cannot be written for the tasks of tmFail
SyncTmFails(direction, bdFail, tmFail) ==
    /\ tmFail # {}
    /\ SyncCall("sync", FALSE, direction, [bdFail |-> bdFail, tmFail |-> tmFail])
    /\ ~last'.returned

\* beadmaster link
Link(tmId, beadId) ==
    \E r \in {LinkRun(linkFile, tmId, beadId, now)} :
       /\ Clock(r.saved)
       /\ linkFile' = r.file
       /\ last' = [NoCall EXCEPT !.op = "link", !.tmId = tmId, !.beadId = beadId,
                                 !.time = now, !.preTm = tmFile, !.preBeads = beadsDb,
                                 !.preFile = linkFile, !.saved = r.saved,
                                 !.returned = TRUE, !.ok = r.ok]
       /\ UNCHANGED <<tmFile, beadsDb, nextBead, running>>

\* beadmaster unlink
Unlink(identifier) ==
    \E r \in {UnlinkRun(linkFile, identifier, now)} :
       /\ Clock(r.saved)
       /\ linkFile' = r.file
       /\ last' = [NoCall EXCEPT !.op = "unlink", !.ident = identifier,
                                 !.time = now, !.preTm = tmFile, !.preBeads = beadsDb,
                                 !.preFile = linkFile, !.saved = r.saved,
                                 !.returned = TRUE, !.ok = r.ok]
       /\ UNCHANGED <<tmFile, beadsDb, nextBead, running>>

Next ==
    \/ \E dryRun \in BOOLEAN, direction \in Directions, bdFail \in BdFails :
          Sync(dryRun, direction, bdFail)
    \/ \E dryRun \in BOOLEAN : Import(dryRun, {})
    \/ \E tmId \in TmIds, beadId \in BeadIdPool : Link(tmId, beadId)
    \/ \E identifier \in IdentPool : Unlink(identifier)

Spec == Init /\ [][Next]_vars

NextThrow ==
    \/ Next
    \/ \E direction \in Directions, bdFail \in BdFails, tmFail \in SUBSET TmIds :
          SyncTmFails(direction, bdFail, tmFail)

SpecThrow == Init /\ [][NextThrow]_vars

\* ------------- a project with one issue, titled by a convention or not, linked or not
\* an issue a user made with bd, its title naming no Task Master task
PlainBead ==
    {[id |-> SeedBeads[1].id, title |-> <<"a">>, status |-> s, priority |-> 2,
      updated_at |-> 1] : s \in {"open", "closed"}}

\* the store after `link 1 b1` on a new project, made before the behaviour starts
PlainLinked == LinkRun(NoFile, 1, SeedBeads[1].id, MaxUserTime).file

InitPlain ==
    /\ tmFile \in TmFiles
    /\ beadsDb \in {<<b>> : b \in PlainBead \cup {c \in BeadSample(1) : c.updated_at # NoDate}}
    /\ linkFile \in {NoFile, PlainLinked}
    /\ now = InitTime
    /\ nextBead = 1
    /\ last = NoCall
    /\ running = [p \in Procs |-> Idle]

SpecPlain == InitPlain /\ [][Next]_vars

\* --------------------------------- two invocations on the project at the same time
\* An invocation reads (loadLinks, and for sync the two snapshots), works on what it
\* read, and writes the whole store; nothing locks links.json, so the steps of two
\* invocations interleave in any order.

\* a bug that is not there: the store is read again at the moment of the write
LoadedFileReread(p) == linkFile

\* the links.json the invocation p works on: the one it read when it started
LoadedFile(p) == running[p].file

\* here the clock has no bound of its own: each process runs one invocation
Tick(wrote) == now' = IF wrote THEN now + 1 ELSE now

RECURSIVE ApplyCalls(_, _, _, _)
\* the adapter calls of a pass, made on tasks.json and on Beads as they are now
ApplyCalls(calls, i, db, time) ==
    IF i > Len(calls) THEN db
    ELSE LET c == calls[i]
             next == CASE ~c.ok -> db
                       [] c.ok /\ c.fn = "createIssue" ->
                            [db EXCEPT !.beads = BeadCreated(@, c.beadId, c.title,
                                                             c.priority, time)]
                       [] c.ok /\ c.fn = "beads.updateStatus" ->
                            [db EXCEPT !.beads = BeadUpdateStatus(@, c.beadId, c.status, time)]
                       [] c.ok /\ c.fn = "tm.updateStatus" ->
                            [db EXCEPT !.tm = TmUpdateStatus(@, c.tmId, c.status, time)]
         IN ApplyCalls(calls, i + 1, next, time)

\* link: `const linkStore = this.loadLinks()`
LinkLoad(p, tmId, beadId) ==
    /\ running[p].phase = "idle"
    /\ running' = [running EXCEPT ![p] =
                      [Idle EXCEPT !.op = "link", !.phase = "loaded", !.tmId = tmId,
                                   !.beadId = beadId, !.file = linkFile, !.loadedAt = now]]
    /\ UNCHANGED <<tmFile, beadsDb, linkFile, now, nextBead, last>>

\* a bug: the new Link is appended to the Links the file holds at the moment of the
\* write, after the two finds looked at the store that was read
LinkSaveMerging(p) ==
    /\ running[p].op = "link" /\ running[p].phase = "loaded"
    /\ \E r \in {LinkRun(LoadedFile(p), running[p].tmId, running[p].beadId, now)} :
          /\ linkFile' = IF r.saved
                         THEN saveLinks([loadLinks(linkFile) EXCEPT !.links =
                                            Append(@, [tmId |-> running[p].tmId,
                                                       beadId |-> running[p].beadId,
                                                       linkedAt |-> now,
                                                       autoLinked |-> FALSE])], now)
                         ELSE linkFile
          /\ Tick(r.saved)
          /\ running' = [running EXCEPT ![p].phase = "done", ![p].ok = r.ok,
                                        ![p].saved = r.saved, ![p].write = linkFile',
                                        ![p].savedAt = now]
    /\ UNCHANGED <<tmFile, beadsDb, nextBead, last>>

\* link: the two finds, the push and saveLinks, on the store that was read
LinkSave(p) ==
    /\ running[p].op = "link" /\ running[p].phase = "loaded"
    /\ \E r \in {LinkRun(LoadedFile(p), running[p].tmId, running[p].beadId, now)} :
          /\ linkFile' = IF r.saved THEN r.file ELSE linkFile
          /\ Tick(r.saved)
          /\ running' = [running EXCEPT ![p].phase = "done", ![p].ok = r.ok,
                                        ![p].saved = r.saved, ![p].write = r.file,
                                        ![p].savedAt = now]
    /\ UNCHANGED <<tmFile, beadsDb, nextBead, last>>

\* unlink: `const linkStore = this.loadLinks()`
UnlinkLoad(p, identifier) ==
    /\ running[p].phase = "idle"
    /\ running' = [running EXCEPT ![p] =
                      [Idle EXCEPT !.op = "unlink", !.phase = "loaded", !.ident = identifier,
                                   !.file = linkFile, !.loadedAt = now]]
    /\ UNCHANGED <<tmFile, beadsDb, linkFile, now, nextBead, last>>

\* unlink: the filter and saveLinks, on the store that was read
UnlinkSave(p) ==
    /\ running[p].op = "unlink" /\ running[p].phase = "loaded"
    /\ \E r \in {UnlinkRun(LoadedFile(p), running[p].ident, now)} :
          /\ linkFile' = IF r.saved THEN r.file ELSE linkFile
          /\ Tick(r.saved)
          /\ running' = [running EXCEPT ![p].phase = "done", ![p].ok = r.ok,
                                        ![p].saved = r.saved, ![p].write = r.file,
                                        ![p].savedAt = now]
    /\ UNCHANGED <<tmFile, beadsDb, nextBead, last>>

\* sync: the two getUnifiedTasks and loadLinks
SyncLoad(p, direction) ==
    /\ running[p].phase = "idle"
    /\ running' = [running EXCEPT ![p] =
                      [Idle EXCEPT !.op = "sync", !.phase = "loaded", !.direction = direction,
                                   !.tm = tmFile, !.beads = beadsDb, !.file = linkFile,
                                   !.loadedAt = now]]
    /\ UNCHANGED <<tmFile, beadsDb, linkFile, now, nextBead, last>>

\* sync: the auto-link pass and the loop over the tasks, decided on what was read;
\* the adapter calls act on tasks.json and Beads as they are now
SyncPass(p) ==
    /\ running[p].op = "sync" /\ running[p].phase = "loaded"
    /\ \E r \in {SyncRun(running[p].tm, running[p].beads, LoadedFile(p), nextBead,
                         [dryRun |-> FALSE, direction |-> running[p].direction],
                         [bdFail |-> {}, tmFail |-> {}], now)} :
          /\ r.nextBead <= MaxNewBeads + 1
          /\ \E db \in {ApplyCalls(r.calls, 1, [tm |-> tmFile, beads |-> beadsDb], now)} :
                /\ tmFile' = db.tm
                /\ beadsDb' = db.beads
          /\ nextBead' = r.nextBead
          /\ Tick(r.calls # <<>>)
          /\ running' = [running EXCEPT ![p].phase = "passed", ![p].write = r.file]
    /\ UNCHANGED <<linkFile, last>>

\* sync: saveLinks(linkStore), the store of the pass with lastSync = new Date()
SyncSave(p) ==
    /\ running[p].op = "sync" /\ running[p].phase = "passed"
    /\ linkFile' = saveLinks(loadLinks(running[p].write), now)
    /\ Tick(TRUE)
    /\ running' = [running EXCEPT ![p].phase = "done", ![p].ok = TRUE, ![p].saved = TRUE,
                                  ![p].write = linkFile', ![p].savedAt = now]
    /\ UNCHANGED <<tmFile, beadsDb, nextBead, last>>

\* a project with both issues of SeedBeads, the first one newer than its task, and
\* either no link store or the one `link 1 b1` left
InitRace ==
    /\ tmFile \in {f \in TmFiles : f[2].status = "pending" /\ f[2].updatedAt = NoDate}
    /\ beadsDb \in {d \in BeadDbs(Len(SeedBeads)) :
                      Len(d) = 2 /\ d[1].status = "closed" /\ d[1].updated_at # NoDate}
    /\ linkFile \in {NoFile, PlainLinked}
    /\ now = InitTime
    /\ nextBead = 1
    /\ last = NoCall
    /\ running = [p \in Procs |-> Idle]

NextRace ==
    \E p \in Procs :
       \/ \E tmId \in TmIds, beadId \in BeadIdPool : LinkLoad(p, tmId, beadId)
       \/ LinkSave(p)
       \/ \E identifier \in IdentPool : UnlinkLoad(p, identifier)
       \/ UnlinkSave(p)
       \/ \E direction \in Directions : SyncLoad(p, direction)
       \/ SyncPass(p)
       \/ SyncSave(p)

SpecRace == InitRace /\ [][NextRace]_vars

\* the commands one after the other on the same project, tasks.json failing to be
\* written in some of the syncs
SpecCrash == InitRace /\ [][NextThrow]_vars

\* ------------------------------------ the adapters alone, on one task and one issue
BaseTm ==
    << [id |-> 1, title |-> <<"a">>, status |-> "pending", priority |-> "high",
        updatedAt |-> NoDate] >>

BaseBeads ==
    << [id |-> <<"b", "1">>, title |-> <<"a">>, status |-> "open", priority |-> 2,
        updated_at |-> NoDate] >>

\* statuses found in tasks.json and in bd's output: the native ones, one neither
\* adapter knows, one only Task Master knows, one that is a property of every object
TmStatusInputs == TmNativeStatuses \cup {"waiting", "constructor"}

BeadStatusInputs == BeadNativeStatuses \cup {"waiting", "blocked", "constructor"}

\* the ways a title can start with the Task Master id n, by a convention or nearly
TitleHeads(n) ==
    { <<"T", "M", "-">> \o DecStr(n) \o <<":">>,
      <<"[", "T", "M", "-">> \o DecStr(n) \o <<"]">>,
      <<"t", "m", ":">> \o DecStr(n),
      <<"T", "M", ":">> \o DecStr(n),
      <<"(", "T", "M", "-">> \o DecStr(n) \o <<")">>,
      <<"T", "M", "-">> \o DecStr(n) }

TitleTails ==
    { <<>>, <<" ", "a">>, <<"x">>, <<" ", "(", "T", "M", "-", "2", ")">>,
      <<" ", "(", "T", "M", "-", "3", "4", ")", " ", "b">> }

Titles ==
    {h \o t : h \in {<<>>} \cup UNION {TitleHeads(n) : n \in {0, 1, 7, 12}}, t \in TitleTails}

InitAdapters ==
    /\ tmFile = BaseTm
    /\ beadsDb = BaseBeads
    /\ linkFile = NoFile
    /\ now = InitTime
    /\ nextBead = 1
    /\ last = NoCall
    /\ running = [p \in Procs |-> Idle]

\* tm.updateStatus(1, status), then the task as getUnifiedTasks gives it
TmWriteStatus(status) ==
    /\ tmFile' = TmUpdateStatus(BaseTm, 1, status, now)
    /\ beadsDb' = BaseBeads
    /\ last' = [NoCall EXCEPT !.op = "tm.updateStatus", !.status = status,
                              !.out = TmGetUnifiedTasks(tmFile')[1].status]
    /\ UNCHANGED <<linkFile, now, nextBead, running>>

\* tasks.json holds the native status, and getUnifiedTasks reads it
TmReadStatus(native) ==
    /\ tmFile' = [BaseTm EXCEPT ![1].status = native]
    /\ beadsDb' = BaseBeads
    /\ last' = [NoCall EXCEPT !.op = "tm.getUnifiedTasks", !.status = native,
                              !.out = TmGetUnifiedTasks(tmFile')[1].status]
    /\ UNCHANGED <<linkFile, now, nextBead, running>>

\* beads.updateStatus('b1', status), then the issue as getUnifiedTasks gives it
BeadWriteStatus(status) ==
    /\ tmFile' = BaseTm
    /\ beadsDb' = BeadUpdateStatus(BaseBeads, BaseBeads[1].id, status, now)
    /\ last' = [NoCall EXCEPT !.op = "beads.updateStatus", !.status = status,
                              !.out = BeadGetUnifiedTasks(beadsDb')[1].status]
    /\ UNCHANGED <<linkFile, now, nextBead, running>>

\* bd lists the issue with the native status, and getUnifiedTasks reads it
BeadReadStatus(native) ==
    /\ tmFile' = BaseTm
    /\ beadsDb' = [BaseBeads EXCEPT ![1].status = native]
    /\ last' = [NoCall EXCEPT !.op = "beads.getUnifiedTasks", !.status = native,
                              !.out = BeadGetUnifiedTasks(beadsDb')[1].status]
    /\ UNCHANGED <<linkFile, now, nextBead, running>>

\* the issue has the title, and extractTmId reads it
BeadReadTitle(title) ==
    /\ tmFile' = BaseTm
    /\ beadsDb' = [BaseBeads EXCEPT ![1].title = title]
    /\ last' = [NoCall EXCEPT !.op = "extractTmId", !.ident = title,
                              !.tmId = extractTmId(BeadGetUnifiedTasks(beadsDb')[1].title)]
    /\ UNCHANGED <<linkFile, now, nextBead, running>>

NextAdapters ==
    \/ \E status \in UnifiedStatuses : TmWriteStatus(status)
    \/ \E native \in TmStatusInputs : TmReadStatus(native)
    \/ \E status \in UnifiedStatuses : BeadWriteStatus(status)
    \/ \E native \in BeadStatusInputs : BeadReadStatus(native)
    \/ \E title \in Titles : BeadReadTitle(title)

SpecAdapters == InitAdapters /\ [][NextAdapters]_vars


\* ----------------------------------------------------- reading the last call
LastIsSync == last.op \in {"sync", "import"}

\* the links on disk before the last call
PreLinks == loadLinks(last.preFile).links

\* the links on disk now
Links == loadLinks(linkFile).links

TmUnifiedId(id) == <<"t", "m", ":">> \o DecStr(id)

\* how many entries of a sequence of booleans are true
Count(flags) == Cardinality({i \in 1..Len(flags) : flags[i]})

\* absent counts as the oldest time
TimeOf(date) == IF date = NoDate THEN 0 ELSE date

\* the pairs (i, j) of a task of tasks.json and an issue of Beads, as the last call
\* found them, that a link of the sequence links joins
Pairs(links) ==
    {p \in (1..Len(last.preTm)) \X (1..Len(last.preBeads)) :
        \E k \in 1..Len(links) :
            /\ links[k].tmId = last.preTm[p[1]].id
            /\ links[k].beadId = last.preBeads[p[2]].id}

StatusA(p) == TmNormalizeStatus(last.preTm[p[1]].status)

StatusB(p) == BeadNormalizeStatus(last.preBeads[p[2]].status)

TimeA(p) == TimeOf(last.preTm[p[1]].updatedAt)

TimeB(p) == TimeOf(last.preBeads[p[2]].updated_at)

IdA(p) == last.preTm[p[1]].id

IdB(p) == last.preBeads[p[2]].id

\* the entries of created / updated / skipped about the pair p
AboutPair(seq, p) ==
    Count([i \in 1..Len(seq) |->
              \/ seq[i].task.id = TmUnifiedId(IdA(p))
              \/ seq[i].task.id = BeadPrefix \o IdB(p)])

\* the status updates the last call asked an adapter for the pair p
UpdateCalls(p) ==
    Count([i \in 1..Len(last.calls) |->
              /\ last.calls[i].fn \in {"beads.updateStatus", "tm.updateStatus"}
              /\ (last.calls[i].tmId = IdA(p) \/ last.calls[i].beadId = IdB(p))])

\* ------------------------------------------------------------------ claims

\* C1: Link uniqueness. In the persisted link store, after any sequence of sync (any
\* direction, dry-run or not), link and unlink calls starting from an empty store,
\* no two Links share a tmId and no two Links share a beadId.
C1_LinkUniqueness ==
    \A i, j \in 1..Len(Links) :
        i # j => /\ Links[i].tmId # Links[j].tmId
                 /\ Links[i].beadId # Links[j].beadId

\* a store of two Links that a sync and a link have written, after a link that was
\* refused or a sync that found both ids taken
C1_Witness ==
    /\ Len(Links) = 2
    /\ \E i, j \in 1..2 : Links[i].autoLinked /\ ~Links[j].autoLinked
    /\ last.op = "link"

\* C2: Dry-run purity. sync({dryRun:true}), for every direction and every snapshot,
\* calls no adapter mutation (createIssue, Beads updateStatus, Task Master
\* updateStatus) and does not write the link store: tasks.json, the issues of Beads,
\* the links and lastSync are what they were; created, updated and conflicts are
\* still filled in.
C2_DryRunPurity ==
    (LastIsSync /\ last.dryRun) =>
        /\ last.calls = <<>>
        /\ ~last.saved
        /\ tmFile = last.preTm
        /\ beadsDb = last.preBeads
        /\ linkFile = last.preFile
        /\ last.returned
        /\ last.result.stats.taskmasterTasks = Len(last.preTm)
        /\ (last.direction # "beads_to_tm" =>
              \A i \in 1..Len(last.preTm) :
                 \/ \E e \in {last.result.created[k] : k \in 1..Len(last.result.created)} :
                       e.task.id = TmUnifiedId(last.preTm[i].id)
                 \/ \E k \in 1..Len(PreLinks) : PreLinks[k].tmId = last.preTm[i].id
                 \/ \E k \in 1..Len(last.preBeads) :
                       extractTmId(last.preBeads[k].title) = last.preTm[i].id)

\* a dry run over a store with a Link that reports a creation and an update
C2_Witness ==
    /\ LastIsSync /\ last.dryRun
    /\ last.result.created # <<>>
    /\ last.result.updated # <<>>
    /\ PreLinks # <<>>

\* the result a dry run gives on what the last call found
DryResultOfLast ==
    SyncRun(last.preTm, last.preBeads, last.preFile, nextBead,
            [dryRun |-> TRUE, direction |-> last.direction],
            [bdFail |-> {}, tmFail |-> {}], last.time).result

TiedPairs == {p \in Pairs(PreLinks) : StatusA(p) # StatusB(p) /\ TimeA(p) = TimeB(p)}

ConflictsOf(p) ==
    Count([i \in 1..Len(last.result.conflicts) |->
              /\ last.result.conflicts[i].task.id = TmUnifiedId(IdA(p))
              /\ last.result.conflicts[i].tmValue = StatusA(p)
              /\ last.result.conflicts[i].beadsValue = StatusB(p)
              /\ last.result.conflicts[i].field = "status"])

\* what C4 asks of a tied pair: one conflict with both statuses, no updated action,
\* no status update asked of an adapter, both records as they were
TieIsConflict(p) ==
    /\ ConflictsOf(p) = 1
    /\ AboutPair(last.result.updated, p) = 0
    /\ UpdateCalls(p) = 0
    /\ tmFile[p[1]] = last.preTm[p[1]]
    /\ beadsDb[p[2]] = last.preBeads[p[2]]

\* C4: A tie is a conflict. In every sync (any direction, dry-run or not, first run
\* or repeated), for every linked pair in both snapshots whose statuses differ and
\* whose updatedAt are equal (absent = oldest, both absent = equal), exactly one
\* conflict with both statuses is recorded, no updated action, and no adapter's
\* status update is called for the pair.
C4_TieIsConflict ==
    LastIsSync => \A p \in TiedPairs : TieIsConflict(p)

\* the same in the two directions that run the comparison of part_001 line 160: there
\* the rule holds, on a first run and on a repeated one
TieIsConflictWhereCompared ==
    (LastIsSync /\ last.direction # "beads_to_tm") => \A p \in TiedPairs : TieIsConflict(p)

\* the pairs joined by a link when the statuses were compared: the links that were on
\* disk and those the pass added by convention, all on disk after a real run
ComparedPairs == {p \in Pairs(Links) : StatusA(p) # StatusB(p)}

BeadCallOk(p) ==
    \E i \in 1..Len(last.calls) :
        /\ last.calls[i].fn = "beads.updateStatus"
        /\ last.calls[i].beadId = IdB(p)
        /\ last.calls[i].ok

UpdatedOf(p, direction, id) ==
    Count([i \in 1..Len(last.result.updated) |->
              /\ last.result.updated[i].direction = direction
              /\ last.result.updated[i].task.id = id])

\* what Beads stores for a unified status
BeadsWordFor(status) ==
    CASE status \in {"pending", "blocked"} -> "open"
      [] status = "in_progress" -> "in_progress"
      [] status \in {"done", "cancelled"} -> "closed"

C6_OnlyTmToBeads ==
    (LastIsSync /\ last.direction = "tm_to_beads") =>
        /\ \A i \in 1..Len(last.calls) : last.calls[i].fn # "tm.updateStatus"
        /\ \A i \in 1..Len(last.result.updated) :
              last.result.updated[i].direction # "beads_to_tm"
        /\ tmFile = last.preTm

\* C7: Direction beads_to_tm. A real sync with direction beads_to_tm still propagates
\* from Beads to Task Master: for every linked pair with different statuses whose
\* bead is strictly newer, the task's status is set to the bead's and an updated
\* action beads_to_tm is recorded; equal timestamps give a conflict.
C7_BeadsToTmPropagates ==
    (last.op = "sync" /\ ~last.dryRun /\ last.direction = "beads_to_tm") =>
        \A p \in ComparedPairs :
            /\ TimeB(p) > TimeA(p) =>
                  /\ TmNormalizeStatus(tmFile[p[1]].status) = StatusB(p)
                  /\ UpdatedOf(p, "beads_to_tm", BeadPrefix \o IdB(p)) = 1
            /\ TimeB(p) = TimeA(p) => ConflictsOf(p) = 1

\* the tasks that have no link and no issue named after them when the call starts
Unmatched ==
    {i \in 1..Len(last.preTm) :
        /\ \A k \in 1..Len(PreLinks) : PreLinks[k].tmId # last.preTm[i].id
        /\ \A k \in 1..Len(last.preBeads) :
              extractTmId(last.preBeads[k].title) # last.preTm[i].id}

\* C8: Failure isolation. When createIssue gives no id, Beads' updateStatus returns
\* false or Task Master's updateStatus raises for one task of a real sync, the pass
\* is not aborted: the remaining tasks are processed, sync returns a SyncResult and
\* the link store is persisted at the end of the pass.
C8_FailureIsolation ==
    (LastIsSync /\ ~last.dryRun) =>
        /\ last.returned
        /\ last.saved
        /\ (last.direction # "beads_to_tm" =>
              \A i \in Unmatched :
                 \E k \in 1..Len(last.calls) :
                    /\ last.calls[k].fn = "createIssue"
                    /\ last.calls[k].tmId = last.preTm[i].id)

\* the task an adapter call was made for, as the result names it
TaskOfCall(c) ==
    IF c.fn = "tm.updateStatus" THEN BeadPrefix \o c.beadId ELSE TmUnifiedId(c.tmId)

Names(seq, id) == \E i \in 1..Len(seq) : seq[i].task.id = id

\* C9: Failed mutations are skipped. Whenever a create or a status update fails for a
\* task in a real sync, the task's action is in SyncResult.skipped and not in
\* created or updated; created and updated hold only the actions that succeeded.
C9_FailedAreSkipped ==
    (LastIsSync /\ ~last.dryRun /\ last.returned) =>
        \A i \in 1..Len(last.calls) :
            ~last.calls[i].ok =>
                /\ Names(last.result.skipped, TaskOfCall(last.calls[i]))
                /\ ~Names(last.result.created, TaskOfCall(last.calls[i]))
                /\ ~Names(last.result.updated, TaskOfCall(last.calls[i]))

\* C10: link(tmId, beadId). If the store holds a Link with that tmId or a Link with
\* that beadId, link returns false and the store on disk (links, lastSync) is
\* unchanged; otherwise it appends the one Link {tmId, beadId, autoLinked:false},
\* leaves the other Links as they are, writes the store within the call and
\* returns true.
C10_Link ==
    last.op = "link" =>
        IF \E k \in 1..Len(PreLinks) :
              PreLinks[k].tmId = last.tmId \/ PreLinks[k].beadId = last.beadId
        THEN /\ ~last.ok
             /\ ~last.saved
             /\ linkFile = last.preFile
        ELSE /\ last.ok
             /\ last.saved
             /\ linkFile.kind = "ok"
             /\ linkFile.lastSync = last.time
             /\ Len(Links) = Len(PreLinks) + 1
             /\ \A k \in 1..Len(PreLinks) : Links[k] = PreLinks[k]
             /\ Links[Len(Links)].tmId = last.tmId
             /\ Links[Len(Links)].beadId = last.beadId
             /\ ~Links[Len(Links)].autoLinked

\* a link refused because the bead is taken, by a task that has no Link itself
C10_Witness ==
    /\ last.op = "link" /\ ~last.ok
    /\ \A k \in 1..Len(PreLinks) : PreLinks[k].tmId # last.tmId
    /\ \E k \in 1..Len(PreLinks) : PreLinks[k].beadId = last.beadId

\* seq without its k-th element
DropAt(seq, k) == [i \in 1..(Len(seq) - 1) |-> IF i < k THEN seq[i] ELSE seq[i + 1]]

\* the Link l is the one the identifier of the last unlink denotes: a number, with or
\* without the prefix tm: or tm-, denotes a Task Master id; anything else a bead id
Denoted(l) ==
    IF UnlinkTmId(last.ident) # NoMatch
    THEN l.tmId = UnlinkTmId(last.ident)
    ELSE l.beadId = last.ident

\* C11: unlink(identifier) removes at most one Link and leaves the other Links as they
\* are; when no Link matches it returns false and does not write the store (links and
\* lastSync on disk unchanged); when a Link matches it writes the store without that
\* Link and returns true.
C11_Unlink ==
    last.op = "unlink" =>
        IF \E k \in 1..Len(PreLinks) : Denoted(PreLinks[k])
        THEN /\ last.ok
             /\ last.saved
             /\ linkFile.kind = "ok"
             /\ linkFile.lastSync = last.time
             /\ \E k \in 1..Len(PreLinks) :
                   /\ Denoted(PreLinks[k])
                   /\ Links = DropAt(PreLinks, k)
        ELSE /\ ~last.ok
             /\ ~last.saved
             /\ linkFile = last.preFile

\* an unlink that removed the first of two Links
C11_Witness ==
    /\ last.op = "unlink" /\ last.ok
    /\ Len(PreLinks) = 2
    /\ Links = <<PreLinks[2]>>

\* the issue j of the snapshot of the last call is one the auto-link pass has to link:
\* its id has no Link, its title names a Task Master id >= least that has no Link,
\* and no issue before it in the snapshot is in the same case for the same id
ToAutoLink(j, least) ==
    LET n == extractTmId(last.preBeads[j].title)
        free(i) == /\ extractTmId(last.preBeads[i].title) = n
                   /\ \A k \in 1..Len(PreLinks) : PreLinks[k].beadId # last.preBeads[i].id
    IN /\ n # NoMatch
       /\ n >= least
       /\ free(j)
       /\ \A k \in 1..Len(PreLinks) : PreLinks[k].tmId # n
       /\ \A i \in 1..(j - 1) : ~free(i)

\* a real sync added the auto-links of the issues that name an id >= least, and no other
AutoLinksAdded(least) ==
    (LastIsSync /\ ~last.dryRun /\ last.returned) =>
        /\ \A j \in 1..Len(last.preBeads) :
              ToAutoLink(j, least) =>
                 \E k \in (Len(PreLinks) + 1)..Len(Links) :
                    /\ Links[k].tmId = extractTmId(last.preBeads[j].title)
                    /\ Links[k].beadId = last.preBeads[j].id
                    /\ Links[k].autoLinked
        /\ \A k \in (Len(PreLinks) + 1)..Len(Links) :
              Links[k].autoLinked =>
                 \E j \in 1..Len(last.preBeads) :
                    /\ ToAutoLink(j, 0)
                    /\ Links[k].tmId = extractTmId(last.preBeads[j].title)
                    /\ Links[k].beadId = last.preBeads[j].id
        /\ (last.direction = "beads_to_tm" =>
              /\ last.calls = <<>>
              /\ tmFile = last.preTm
              /\ beadsDb = last.preBeads)

\* C12: Auto-link pass. In every sync, whatever the direction, for every issue of the
\* snapshot whose id has no Link and whose title yields a Task Master id n (any
\* non-negative integer, 0 included) that has no Link, a Link {n, bead id,
\* autoLinked:true} is added; none is added for an issue or an id that has a Link,
\* and the pass calls no adapter mutation.
C12_AutoLinkPass == AutoLinksAdded(0)

\* the same for the ids from 1 on: there the pass does what C12 says
AutoLinkPassFromOne == AutoLinksAdded(1)

\* the last call and the call that follows are real syncs with direction beads_to_tm:
\* two runs of the auto-link pass in a row, nothing created, the snapshots unchanged
TwoAutoLinkRuns ==
    /\ last.op = "sync" /\ ~last.dryRun /\ last.direction = "beads_to_tm"
    /\ last'.op = "sync" /\ ~last'.dryRun /\ last'.direction = "beads_to_tm"
    /\ tmFile = last.preTm /\ beadsDb = last.preBeads

\* C13: Auto-link idempotence. Two runs of the auto-link pass in a row on unchanged
\* snapshots (syncs with direction beads_to_tm, which create nothing): the Links
\* after the second run are the Links after the first; the second adds none.
C13_AutoLinkIdempotence ==
    [][TwoAutoLinkRuns =>
          /\ loadLinks(linkFile').links = loadLinks(linkFile).links
          /\ last'.preTm = last.preTm
          /\ last'.preBeads = last.preBeads]_vars

\* after the second of two such runs: the first wrote the store with an auto-link in
\* it (lastSync is the time just before), the second found it and left it
C13_Witness ==
    /\ last.op = "sync" /\ ~last.dryRun /\ last.direction = "beads_to_tm"
    /\ last.preFile.kind = "ok"
    /\ last.preFile.lastSync = last.time - 1
    /\ PreLinks # <<>>
    /\ \A k \in 1..Len(PreLinks) : PreLinks[k].autoLinked /\ PreLinks[k].linkedAt = last.time - 1
    /\ Links = PreLinks

\* the tasks of the snapshot that have no Link when the auto-link pass of the last
\* sync is over: none on disk before, none added to an issue of the snapshot
NoLinkAfterAutoLink ==
    {i \in 1..Len(last.preTm) :
        /\ \A k \in 1..Len(PreLinks) : PreLinks[k].tmId # last.preTm[i].id
        /\ \A k \in (Len(PreLinks) + 1)..Len(Links) :
              Links[k].tmId = last.preTm[i].id =>
                 \A j \in 1..Len(last.preBeads) : last.preBeads[j].id # Links[k].beadId}

\* the createIssue calls of the last sync for the task i
CreateCalls(i) ==
    {k \in 1..Len(last.calls) :
        last.calls[k].fn = "createIssue" /\ last.calls[k].tmId = last.preTm[i].id}

\* the created actions of the last sync for the task i with the reason text
CreatedActions(i, text) ==
    {k \in 1..Len(last.result.created) :
        /\ last.result.created[k].task.id = TmUnifiedId(last.preTm[i].id)
        /\ last.result.created[k].direction = "tm_to_beads"
        /\ last.result.created[k].reason.text = text}

\* what C14 asks for the task i, the reason of the created action being text
CounterpartCreated(i, text) ==
    /\ Cardinality(CreateCalls(i)) = 1
    /\ \A k \in CreateCalls(i) :
          /\ last.calls[k].title =
                <<"T", "M", "-">> \o DecStr(last.preTm[i].id) \o <<":", " ">>
                   \o last.preTm[i].title
          /\ last.calls[k].priority = TmNormalizePriority(last.preTm[i].priority)
          /\ last.calls[k].ok =>
                /\ Count([n \in 1..Len(Links) |-> Links[n].tmId = last.preTm[i].id]) = 1
                /\ \E n \in (Len(PreLinks) + 1)..Len(Links) :
                      /\ Links[n].tmId = last.preTm[i].id
                      /\ Links[n].beadId = last.calls[k].beadId
                      /\ ~Links[n].autoLinked
                /\ \A j \in 1..Len(last.preBeads) : last.preBeads[j].id # last.calls[k].beadId
                /\ \E j \in 1..Len(beadsDb) :
                      /\ beadsDb[j].id = last.calls[k].beadId
                      /\ beadsDb[j].title = last.calls[k].title
                      /\ beadsDb[j].priority = last.calls[k].priority
          /\ ~last.calls[k].ok =>
                \A n \in 1..Len(Links) : Links[n].tmId # last.preTm[i].id
    /\ Cardinality(CreatedActions(i, text)) = 1
    /\ Count([k \in 1..Len(last.result.created) |->
                 last.result.created[k].task.id = TmUnifiedId(last.preTm[i].id)]) = 1

UnlinkedNaming(n) ==
    {j \in 1..Len(last.preBeads) :
        /\ extractTmId(last.preBeads[j].title) = n
        /\ \A k \in 1..Len(PreLinks) : PreLinks[k].beadId # last.preBeads[j].id}

\* the tasks of the snapshot with an id >= least, without a Link, that an issue
\* without a Link names
NamedUnlinked(least) ==
    {i \in 1..Len(last.preTm) :
        /\ last.preTm[i].id >= least
        /\ \A k \in 1..Len(PreLinks) : PreLinks[k].tmId # last.preTm[i].id
        /\ UnlinkedNaming(last.preTm[i].id) # {}}

\* one sync links such a task to an issue that names it, and creates nothing for it
LinkedNotCreated(least) ==
    (LastIsSync /\ last.returned) =>
        \A i \in NamedUnlinked(least) :
            /\ ~last.dryRun =>
                  /\ Count([k \in 1..Len(Links) |-> Links[k].tmId = last.preTm[i].id]) = 1
                  /\ \E k \in 1..Len(Links), j \in UnlinkedNaming(last.preTm[i].id) :
                        /\ Links[k].tmId = last.preTm[i].id
                        /\ Links[k].beadId = last.preBeads[j].id
                        /\ Links[k].autoLinked
            /\ CreateCalls(i) = {}
            /\ \A k \in 1..Len(last.result.created) :
                  last.result.created[k].task.id # TmUnifiedId(last.preTm[i].id)

\* C15: Auto-link precedes creation. When an issue without a Link whose title follows
\* the convention for the Task Master id n and the task n without a Link are both in
\* the snapshot, one sync produces exactly one Link between them (autoLinked:true),
\* records no created action and makes no createIssue call for the task n.
C15_AutoLinkBeforeCreate == LinkedNotCreated(0)

\* the same for the ids from 1 on, where it holds
AutoLinkBeforeCreateFromOne == LinkedNotCreated(1)

\* a links.json that holds the empty store
EmptyFile == [kind |-> "ok", version |-> 1, links |-> <<>>, lastSync |-> NoDate]

\* what the last call met: the ids bd failed for, and the number of the next issue
LastBdFail == {last.calls[k].tmId : k \in {n \in 1..Len(last.calls) : ~last.calls[n].ok}}

LastNextBead ==
    nextBead - Count([k \in 1..Len(last.calls) |->
                         last.calls[k].fn = "createIssue" /\ last.calls[k].ok])

\* the last call did on a missing or unparsable links.json what it does on EmptyFile
AsOnEmptyStore ==
    CASE LastIsSync ->
            LET r == SyncRun(last.preTm, last.preBeads, EmptyFile, LastNextBead,
                             [dryRun |-> last.dryRun, direction |-> last.direction],
                             [bdFail |-> LastBdFail, tmFail |-> {}], last.time)
            IN /\ last.returned
               /\ last.result = r.result
               /\ last.calls = r.calls
               /\ tmFile = r.tm
               /\ beadsDb = r.beads
               /\ last.saved = r.saved
               /\ IF last.saved THEN linkFile = r.file ELSE linkFile = last.preFile
      [] last.op = "link" ->
            LET r == LinkRun(EmptyFile, last.tmId, last.beadId, last.time)
            IN /\ last.ok = r.ok
               /\ last.ok
               /\ linkFile = r.file
      [] last.op = "unlink" ->
            /\ ~last.ok
            /\ ~UnlinkRun(EmptyFile, last.ident, last.time).ok
            /\ linkFile = last.preFile
      [] OTHER -> TRUE

\* C16: Link store load fails soft. loadLinks never raises; when the file is absent
\* or cannot be parsed it returns the fresh store {version:1, links:[]}, so sync,
\* link, unlink and listLinks on a project with a missing or unparsable link file
\* behave as on an empty link store.
C16_LoadFailsSoft ==
    /\ linkFile.kind # "ok" =>
          /\ loadLinks(linkFile) = [version |-> 1, links |-> <<>>, lastSync |-> NoDate]
          /\ listLinks(linkFile) = <<>>
    /\ last.preFile.kind # "ok" => AsOnEmptyStore

\* a sync that found an unparsable links.json and wrote a store with Links over it
C16_Witness ==
    /\ LastIsSync /\ ~last.dryRun
    /\ last.preFile.kind = "unparsable"
    /\ linkFile.kind = "ok"
    /\ Len(Links) = 2

\* C17: Links are never pruned except by unlink. Every Link on disk before a sync
\* (any options), an import or a link is on disk after it with the same tmId, beadId
\* and autoLinked flag, also when its task or its issue is in no snapshot any more.
C17_NeverPruned ==
    last.op \in {"sync", "import", "link"} =>
        /\ Len(Links) >= Len(PreLinks)
        /\ \A k \in 1..Len(PreLinks) :
              /\ Links[k].tmId = PreLinks[k].tmId
              /\ Links[k].beadId = PreLinks[k].beadId
              /\ Links[k].autoLinked = PreLinks[k].autoLinked

\* a real sync over a store with a Link to an issue that Beads does not hold
C17_Witness ==
    /\ LastIsSync /\ ~last.dryRun /\ last.saved
    /\ \E k \in 1..Len(PreLinks) :
          \A j \in 1..Len(last.preBeads) : last.preBeads[j].id # PreLinks[k].beadId

\* what a unified status reads back as after Beads stored it, as C18 lists it
BeadsReadBack(status) ==
    CASE status = "blocked" -> "pending"
      [] status = "cancelled" -> "done"
      [] OTHER -> status

\* C18 for the native statuses outside the set excluded
StatusRoundTrip(excluded) ==
    /\ {TmNormalizeStatus(n) : n \in TmNativeStatuses} = UnifiedStatuses
    /\ {BeadNormalizeStatus(n) : n \in BeadNativeStatuses} = {"pending", "in_progress", "done"}
    /\ last.op = "tm.updateStatus" => last.out = last.status
    /\ last.op = "beads.updateStatus" => last.out = BeadsReadBack(last.status)
    /\ (last.op = "tm.getUnifiedTasks" /\ last.status \notin excluded) =>
          /\ last.out \in UnifiedStatuses
          /\ last.status \notin TmNativeStatuses => last.out = "pending"
    /\ (last.op = "beads.getUnifiedTasks" /\ last.status \notin excluded) =>
          /\ last.out \in UnifiedStatuses
          /\ last.status \notin BeadNativeStatuses => last.out = "pending"

\* C18: Status normalization round trip. For each adapter and every unified status s
\* its normalization can produce, normalize(denormalize(s)) = s (Task Master: all
\* five; Beads: pending, in_progress, done); every native status, recognized or
\* not, normalizes to one of the five unified statuses, the unrecognized ones to
\* pending; on Beads blocked and cancelled are the only ones that do not round-trip
\* (blocked -> open -> pending, cancelled -> closed -> done).
C18_StatusRoundTrip == StatusRoundTrip({})

\* the same without the statuses that are names of properties of Object.prototype
StatusRoundTripOwnKeys == StatusRoundTrip(ObjectPrototypeKeys)

\* the order of priority C20 gives to the patterns of extractTmId: "TM-<n>:" prefix,
\* "[TM-<n>]" prefix, "(TM-<n>)" anywhere, "tm:<n>" prefix without case
ClaimedOrder == <<1, 2, 4, 3>>

\* the first pattern, in the sequence order, that matches the title: its number
FirstMatch(title, order) ==
    LET hits == {i \in 1..Len(order) : ExtractPattern(title, order[i]) # NoMatch}
    IN IF hits = {} THEN NoMatch
       ELSE ExtractPattern(title, order[CHOOSE i \in hits : \A k \in hits : i <= k])

\* C20: Identifier extraction order. extractTmId tries (1) "TM-<n>: " prefix, (2)
\* "[TM-<n>]" prefix, (3) "(TM-<n>)" anywhere, (4) "tm:<n>" prefix without case, and
\* returns the number of the first that matches, no-match when none does; a title
\* that starts with "tm:<m>" and contains "(TM-<n>)" yields n.
C20_ExtractionOrder ==
    last.op = "extractTmId" => last.tmId = FirstMatch(last.ident, ClaimedOrder)

\* the last unlink, given the id of either side of a Link of the store, removed that
\* Link, and by the bead id no other; asked of the Links whose bead id is in beadIds
UnlinkByEitherId(beadIds) ==
    last.op = "unlink" =>
        \A k \in 1..Len(PreLinks) :
            /\ last.ident = DecStr(PreLinks[k].tmId) =>
                  /\ last.ok
                  /\ \A n \in 1..Len(Links) : Links[n].tmId # PreLinks[k].tmId
            /\ (last.ident = PreLinks[k].beadId /\ PreLinks[k].beadId \in beadIds) =>
                  /\ last.ok
                  /\ Links = DropAt(PreLinks, k)

\* C19: unlink resolves either side's identifier. For every Link L of the store,
\* unlink(String(L.tmId)) removes L, and unlink(L.beadId) removes L and no other
\* Link, whatever the form of the bead id (digits only, or 'tm-<digits>', included).
C19_UnlinkEitherSide ==
    UnlinkByEitherId({PreLinks[k].beadId : k \in 1..Len(PreLinks)})

\* the same for the bead ids that do not read as a Task Master id, where it holds
UnlinkEitherSideOtherIds ==
    UnlinkByEitherId({PreLinks[k].beadId : k \in {n \in 1..Len(PreLinks) :
                                                    UnlinkTmId(PreLinks[n].beadId) = NoMatch}})


\* C21: Save ordering and crash consistency. Within one sync pass links.json is
\* written at most once, and only after every adapter create or update call of the
\* pass has been issued; when the pass stops because an adapter call raises, the
\* file on disk is the one that was there before the pass.
C21_SaveOrdering ==
    LastIsSync =>
        /\ Len(last.writes) <= 1
        /\ \A w \in 1..Len(last.writes) :
              /\ last.writes[w].after = Len(last.calls)
              /\ linkFile = last.writes[w].file
        /\ last.saved = (last.writes # <<>>)
        /\ last.writes = <<>> => linkFile = last.preFile
        /\ ~last.returned => last.writes = <<>>

\* a pass that had an issue created and its Link pushed, and then stopped on a raise
C21_Witness ==
    /\ LastIsSync /\ ~last.returned
    /\ \E k \in 1..Len(last.calls) : last.calls[k].fn = "createIssue" /\ last.calls[k].ok
    /\ Len(beadsDb) = Len(last.preBeads) + 1
    /\ linkFile = last.preFile


\* the Links the auto-link pass of the last sync added in memory: one for each issue
\* it has to link (the ids from 1 on, see C12)
AutoLinkCount == Cardinality({j \in 1..Len(last.preBeads) : ToAutoLink(j, 1)})

\* C22: Stats. In every SyncResult stats.taskmasterTasks and stats.beadIssues are the
\* sizes of the two snapshots, stats.linked is the number of Links of the store
\* after the passes of the call (the number written when the run is not a dry run;
\* in a dry run the loaded Links and the auto-links), and stats.unlinked is
\* stats.taskmasterTasks - stats.linked.
C22_Stats ==
    (LastIsSync /\ last.returned) =>
        /\ last.result.stats.taskmasterTasks = Len(last.preTm)
        /\ last.result.stats.beadIssues = Len(last.preBeads)
        /\ ~last.dryRun => last.result.stats.linked = Len(Links)
        /\ last.dryRun => last.result.stats.linked = Len(PreLinks) + AutoLinkCount
        /\ last.result.stats.unlinked =
              last.result.stats.taskmasterTasks - last.result.stats.linked

\* a real run that found one Link, auto-linked nothing and created an issue: two
\* Links counted, no task unlinked
C22_Witness ==
    /\ LastIsSync /\ ~last.dryRun /\ last.returned
    /\ Len(PreLinks) = 1
    /\ last.result.created # <<>>
    /\ last.result.stats.linked = 2
    /\ last.result.stats.unlinked = 0
    /\ last.result.stats.beadIssues = 1


\* the issues of the snapshot of the last call that have no Link and whose title
\* follows no linking convention
PlainUnlinked ==
    {j \in 1..Len(last.preBeads) :
        /\ extractTmId(last.preBeads[j].title) = NoMatch
        /\ \A k \in 1..Len(PreLinks) : PreLinks[k].beadId # last.preBeads[j].id}

\* C23: Unlinked issues are left alone. sync never creates a task in Task Master, and
\* an issue that has no Link and whose title follows no linking convention gives no
\* created, updated, conflict or skipped entry, no Link and no adapter call, in
\* every direction.
C23_UnlinkedLeftAlone ==
    LastIsSync =>
        /\ [i \in 1..Len(tmFile) |-> tmFile[i].id] = [i \in 1..Len(last.preTm) |-> last.preTm[i].id]
        /\ \A j \in PlainUnlinked :
              /\ ~Names(last.result.created, BeadPrefix \o last.preBeads[j].id)
              /\ ~Names(last.result.updated, BeadPrefix \o last.preBeads[j].id)
              /\ ~Names(last.result.conflicts, BeadPrefix \o last.preBeads[j].id)
              /\ ~Names(last.result.skipped, BeadPrefix \o last.preBeads[j].id)
              /\ \A k \in 1..Len(Links) : Links[k].beadId # last.preBeads[j].id
              /\ \A k \in 1..Len(last.calls) : last.calls[k].beadId # last.preBeads[j].id
              /\ beadsDb[j] = last.preBeads[j]

\* a real sync that found such an issue beside a linked pair, and created an issue for
\* the other task
C23_Witness ==
    /\ LastIsSync /\ ~last.dryRun /\ last.direction = "bidirectional"
    /\ PlainUnlinked # {}
    /\ PreLinks # <<>>
    /\ \E k \in 1..Len(last.calls) : last.calls[k].fn = "createIssue" /\ last.calls[k].ok


\* the tasks of the snapshot whose Link names an issue that the snapshot of Beads
\* does not hold
StaleLinked ==
    {i \in 1..Len(last.preTm) :
        \E k \in 1..Len(PreLinks) :
            /\ PreLinks[k].tmId = last.preTm[i].id
            /\ \A j \in 1..Len(last.preBeads) : last.preBeads[j].id # PreLinks[k].beadId}

\* C28: A stale Link is inert. For a task whose Link names an issue absent from the
\* snapshot of Beads, sync records no created, updated, conflict or skipped entry,
\* makes no adapter call for it (no replacement issue is created) and keeps the Link.
C28_StaleLinkInert ==
    (LastIsSync /\ last.returned) =>
        \A i \in StaleLinked :
            /\ ~Names(last.result.created, TmUnifiedId(last.preTm[i].id))
            /\ ~Names(last.result.updated, TmUnifiedId(last.preTm[i].id))
            /\ ~Names(last.result.conflicts, TmUnifiedId(last.preTm[i].id))
            /\ ~Names(last.result.skipped, TmUnifiedId(last.preTm[i].id))
            /\ \A k \in 1..Len(last.calls) : last.calls[k].tmId # last.preTm[i].id
            /\ tmFile[i] = last.preTm[i]
            /\ \A k \in 1..Len(PreLinks) :
                  PreLinks[k].tmId = last.preTm[i].id => Links[k] = PreLinks[k]
            /\ Count([k \in 1..Len(Links) |-> Links[k].tmId = last.preTm[i].id]) = 1

\* a real sync that ran the loop over the tasks, created an issue for another task
\* and left the task with the stale Link as it was
C28_Witness ==
    /\ LastIsSync /\ ~last.dryRun /\ last.direction # "beads_to_tm"
    /\ StaleLinked # {}
    /\ \E k \in 1..Len(last.calls) : last.calls[k].fn = "createIssue" /\ last.calls[k].ok

\* the pairs a Link joined when the last sync compared the statuses (the Links on
\* disk before it and those it added), the two tasks having the same unified status
EqualPairs == {p \in Pairs(PreLinks) \cup Pairs(Links) : StatusA(p) = StatusB(p)}

\* C29: Equal statuses need no action. For every linked pair whose tasks have the
\* same unified status, sync records no updated action and no conflict and asks no
\* adapter for a status update, whatever the two updatedAt are.
C29_EqualStatusesNoAction ==
    LastIsSync =>
        \A p \in EqualPairs :
            /\ AboutPair(last.result.updated, p) = 0
            /\ AboutPair(last.result.conflicts, p) = 0
            /\ UpdateCalls(p) = 0
            /\ tmFile[p[1]] = last.preTm[p[1]]
            /\ beadsDb[p[2]] = last.preBeads[p[2]]

\* a real bidirectional sync over a pair with equal statuses, the task stamped later
\* than the issue, and another with equal statuses, the issue stamped and the task not
C29_Witness ==
    /\ last.op = "sync" /\ ~last.dryRun /\ last.direction = "bidirectional"
    /\ \E p \in EqualPairs : TimeA(p) > TimeB(p)
    /\ \E p \in EqualPairs : TimeA(p) < TimeB(p)


\* the last call was a real bidirectional sync whose adapter calls all succeeded, and
\* the call that follows is a sync
SyncAfterCleanSync ==
    /\ last.op = "sync" /\ ~last.dryRun /\ last.direction = "bidirectional"
    /\ last.returned
    /\ \A k \in 1..Len(last.calls) : last.calls[k].ok
    /\ last'.op = "sync"

\* when the tasks the first sync found all have a status of the set statuses: the
\* second sync finds nothing to do, and of every pair the first sync found with
\* different statuses both tasks still have the status of the side that was newer
FixpointStep(statuses) ==
    (/\ SyncAfterCleanSync
     /\ \A i \in 1..Len(last.preTm) : TmNormalizeStatus(last.preTm[i].status) \in statuses) =>
        /\ \A p \in ComparedPairs :
              /\ TimeA(p) > TimeB(p) =>
                    /\ TmNormalizeStatus(tmFile'[p[1]].status) = StatusA(p)
                    /\ BeadNormalizeStatus(beadsDb'[p[2]].status) = StatusA(p)
              /\ TimeB(p) > TimeA(p) =>
                    /\ TmNormalizeStatus(tmFile'[p[1]].status) = StatusB(p)
                    /\ BeadNormalizeStatus(beadsDb'[p[2]].status) = StatusB(p)
        /\ last'.result.updated = <<>>
        /\ last'.result.created = <<>>

\* C26: Sync reaches a fixpoint. After a real bidirectional sync in which every
\* adapter call succeeded, the sync that follows at once reports no updated and no
\* created action, and the status set on the newer side of a linked pair is still
\* the status of both tasks, for every unified status of the Task Master task,
\* blocked and cancelled included.
C26_Fixpoint == [][FixpointStep(UnifiedStatuses)]_vars

\* the same when every task is pending, the status of a new issue: there it holds
FixpointOfPendingTasks == [][FixpointStep({"pending"})]_vars


\* the last call and the call that follows are real passes, sync or import
TwoRealPasses ==
    /\ LastIsSync /\ ~last.dryRun
    /\ last'.op \in {"sync", "import"} /\ ~last'.dryRun

\* bd created an issue for the task id among the adapter calls
CreatedFor(calls, id) ==
    \E k \in 1..Len(calls) : calls[k].fn = "createIssue" /\ calls[k].ok /\ calls[k].tmId = id

\* no task has an issue created in each of two passes in a row
NoSecondCounterpart(firstReturned) ==
    (TwoRealPasses /\ (last.returned \in firstReturned)) =>
        \A id \in TmIds : ~(CreatedFor(last.calls, id) /\ CreatedFor(last'.calls, id))

\* C27: No duplicate counterparts across passes. Over real sync and import passes in
\* a row, with no unlink and no outside edit between them, at most one issue is
\* created for each Task Master id, also when the earlier pass created the issue and
\* stopped on an adapter error before writing its Link: the next pass auto-links the
\* issue "TM-<id>: <title>" and creates no other.
C27_NoDuplicateCounterparts == [][NoSecondCounterpart(BOOLEAN)]_vars

\* the same when the first pass returned and so wrote its Links: there it holds
NoDuplicateAfterSavedPass == [][NoSecondCounterpart({TRUE})]_vars


\* the last call was an unlink that removed a Link, and the call that follows is a sync
SyncAfterUnlink == last.op = "unlink" /\ last.ok /\ last'.op = "sync"

\* the Links the last unlink removed
Unlinked == {k \in 1..Len(PreLinks) : Denoted(PreLinks[k])}

\* the issue of the Link l is in Beads, and its title yields n
TitleYields(l, n) ==
    \E j \in 1..Len(beadsDb) : beadsDb[j].id = l.beadId /\ extractTmId(beadsDb[j].title) = n

\* what C30 says of the sync after an unlink, for the Links with a Task Master id
\* from least on
UndoneByConvention(least) ==
    SyncAfterUnlink =>
        \A k \in Unlinked :
            LET l == PreLinks[k]
                links == loadLinks(linkFile').links
            IN l.tmId >= least =>
                 /\ (/\ TitleYields(l, l.tmId)
                     /\ \A n \in 1..Len(Links) : Links[n].beadId # l.beadId) =>
                       /\ ~last'.dryRun =>
                             \E n \in 1..Len(links) :
                                /\ links[n].tmId = l.tmId
                                /\ links[n].beadId = l.beadId
                                /\ links[n].autoLinked
                       /\ ~Names(last'.result.created, TmUnifiedId(l.tmId))
                       /\ ~CreatedFor(last'.calls, l.tmId)
                 /\ (/\ TitleYields(l, NoMatch)
                     /\ ~last'.dryRun
                     /\ last'.direction # "beads_to_tm") =>
                       /\ Names(last'.result.created, TmUnifiedId(l.tmId))
                       /\ \E c \in 1..Len(last'.calls) :
                             /\ last'.calls[c].fn = "createIssue"
                             /\ last'.calls[c].tmId = l.tmId
                             /\ last'.calls[c].ok =>
                                   \E n \in 1..Len(links) :
                                      /\ links[n].tmId = l.tmId
                                      /\ links[n].beadId = last'.calls[c].beadId
                                      /\ links[n].beadId # l.beadId

\* C30: Unlink is undone by convention. After unlink removed the Link of a pair whose
\* issue's title still follows a linking convention for the task's id, the next sync
\* (any direction, both ids without another Link) adds a Link between the same two
\* ids with autoLinked:true and records no create action for the task; after
\* unlinking a pair whose issue's title follows no convention, the next real sync
\* with a direction other than beads_to_tm creates a new issue for the task.
C30_UnlinkUndone == [][UndoneByConvention(0)]_vars

\* the same for the Task Master ids from 1 on: there it holds
UnlinkUndoneFromOne == [][UndoneByConvention(1)]_vars


\* the invocations p and q have both written links.json, each having read it before
\* the other wrote
Raced(p, q) ==
    /\ p # q
    /\ running[p].phase = "done" /\ running[p].saved
    /\ running[q].phase = "done" /\ running[q].saved
    /\ running[p].loadedAt <= running[q].savedAt
    /\ running[q].loadedAt <= running[p].savedAt

\* p and q are link invocations on different tasks and different issues
DistinctLinks(p, q) ==
    /\ running[p].op = "link" /\ running[q].op = "link"
    /\ running[p].tmId # running[q].tmId
    /\ running[p].beadId # running[q].beadId

\* C24: Lost update under concurrent invocations. The link store has no lock: when
\* two invocations interleave their load and save steps (link(a1,b1) and link(a2,b2)
\* with different ids, both loading before either saves), both return success, the
\* store on disk is the one the last save wrote, and it lacks the Link of the other.
C24_LostUpdate ==
    \A p, q \in Procs :
        (Raced(p, q) /\ running[p].savedAt < running[q].savedAt) =>
            /\ linkFile = running[q].write
            /\ DistinctLinks(p, q) =>
                  /\ running[p].ok /\ running[q].ok
                  /\ \A k \in 1..Len(Links) : Links[k].tmId # running[p].tmId
                  /\ \A k \in 1..Len(Links) : Links[k].beadId # running[p].beadId
                  /\ Len(Links) = Len(loadLinks(running[q].file).links) + 1
                  /\ Links[Len(Links)].tmId = running[q].tmId
                  /\ Links[Len(Links)].beadId = running[q].beadId

\* two links of different pairs that both read the empty store and both returned true
C24_Witness ==
    \E p, q \in Procs :
        /\ Raced(p, q) /\ DistinctLinks(p, q)
        /\ running[p].ok /\ running[q].ok
        /\ running[p].file = NoFile /\ running[q].file = NoFile
        /\ Len(Links) = 1

\* no two Links of the sequence share a tmId or a beadId
Unique(links) ==
    \A i, j \in 1..Len(links) :
        i # j => /\ links[i].tmId # links[j].tmId
                 /\ links[i].beadId # links[j].beadId

\* C25: Link uniqueness survives races. Under every interleaving of the load, mutate
\* and save steps of concurrent sync, link and unlink invocations (each save writing
\* the whole store in one step), every store written has at most one Link for a
\* tmId and at most one for a beadId: a race drops Links and makes no duplicate.
C25_UniquenessUnderRaces ==
    /\ Unique(Links)
    /\ \A p \in Procs : running[p].saved => Unique(loadLinks(running[p].write).links)

\* a sync and a link that raced: the store on disk holds Links, and a Link the first
\* of the two wrote is not among them
C25_Witness ==
    \E p, q \in Procs :
        /\ Raced(p, q) /\ running[p].savedAt < running[q].savedAt
        /\ {running[p].op, running[q].op} = {"sync", "link"}
        /\ Links # <<>>
        /\ \E k \in 1..Len(loadLinks(running[p].write).links) :
              \A n \in 1..Len(Links) :
                 \/ Links[n].tmId # loadLinks(running[p].write).links[k].tmId
                 \/ Links[n].beadId # loadLinks(running[p].write).links[k].beadId

====
